---- MODULE Spec2Model ----
(***************************************************************************)
(* Model of the logistics dashboard (src/unnamed/part_000): getWeekNumber, *)
(* the per-source aggregators, calculateMetrics, the cumulative chart      *)
(* series, and the Dashboard component's loading of the four CSV sources.  *)
(*                                                                         *)
(* JavaScript strings are sequences of one-character strings, Date objects *)
(* are day numbers (days since 1970-01-01, local zone = UTC) or the        *)
(* Invalid Date, numbers are exact rationals <<numerator, denominator>>.   *)
(***************************************************************************)
EXTENDS Integers, Sequences, FiniteSets, TLC

VARIABLES
    hostDate,       \* what the host's non-ISO Date.parse gives (implementation-defined)
    dateStr,        \* getWeekNumber: the argument of the call
    date,           \* getWeekNumber: the local `date` at line 41
    weekKey,        \* getWeekNumber: the returned value
    otherStr,       \* a second getWeekNumber call: its argument
    otherKey,       \* a second getWeekNumber call: the returned value
    rawDataState,   \* the four loaded batches: products, salesOrders, purchaseOrders, clocks
    result,         \* calculateMetrics: how the call ended and what it returned
    cumulativeData, \* CumulativeVolumeChart: the series handed to the chart
    processedData,  \* Dashboard state: the dataset handed to the charts
    loadingState,   \* Dashboard state: loading, error, dataProgress
    loadCSVCalls,   \* loadData: each loadCSV call, its progress and the value it returned
    calls,          \* the number of calculateMetrics invocations of loadData
    pc              \* position of the run

vars == <<hostDate, dateStr, date, weekKey, otherStr, otherKey, rawDataState, result,
          cumulativeData, processedData, loadingState, loadCSVCalls, calls, pc>>

loadVars == <<processedData, loadingState, loadCSVCalls, calls>>

metricVars == <<rawDataState, result, cumulativeData>>
weekVars == <<dateStr, date, weekKey, otherStr, otherKey>>

(***************************************************************************)
(* Bounds of the model                                                     *)
(***************************************************************************)
MaxStores  == 11
MaxPattern == 4
FirstYear  == 2024
LastYear   == 2027
MaxDay     == 31
MaxRecords == 3     \* records over the sales, purchase and clock batches together

(***************************************************************************)
(* JavaScript values                                                       *)
(***************************************************************************)
Str(s)    == [t |-> "string", v |-> s]
Num(q)    == [t |-> "number", v |-> q]
Undefined == [t |-> "undefined", v |-> <<>>]
Null      == [t |-> "null", v |-> <<>>]

\* Numbers are exact rationals <<n, d>> in lowest terms with d > 0; NaN is <<0, 0>>.
RECURSIVE GCD(_, _)
GCD(a, b) == IF b = 0 THEN a ELSE GCD(b, a % b)

Abs(n) == IF n < 0 THEN 0 - n ELSE n

NaN == <<0, 0>>
IsNaN(q) == q[2] = 0

Rat(n, d) ==
    IF d = 0 THEN NaN
    ELSE LET g == GCD(Abs(n), Abs(d))
             s == IF d < 0 THEN 0 - 1 ELSE 1
         IN  <<(s * n) \div g, (s * d) \div g>>

Int2Rat(n) == <<n, 1>>
RatAdd(a, b) == IF IsNaN(a) \/ IsNaN(b) THEN NaN ELSE Rat(a[1] * b[2] + b[1] * a[2], a[2] * b[2])
RatSub(a, b) == IF IsNaN(a) \/ IsNaN(b) THEN NaN ELSE Rat(a[1] * b[2] - b[1] * a[2], a[2] * b[2])
RatDiv(a, b) == IF IsNaN(a) \/ IsNaN(b) THEN NaN ELSE Rat(a[1] * b[2], a[2] * b[1])
\* Comparisons with NaN are false.
RatLess(a, b) == ~IsNaN(a) /\ ~IsNaN(b) /\ a[1] * b[2] < b[1] * a[2]
RatLeq(a, b)  == ~IsNaN(a) /\ ~IsNaN(b) /\ a[1] * b[2] <= b[1] * a[2]
Zero == Int2Rat(0)
\* Math.trunc of a rational, as an integer.
Trunc(q) == IF q[1] >= 0 THEN q[1] \div q[2] ELSE 0 - ((0 - q[1]) \div q[2])

Digits == <<"0", "1", "2", "3", "4", "5", "6", "7", "8", "9">>

IsDigit(c) == \E i \in 1..10 : Digits[i] = c

DigitVal(c) == (CHOOSE i \in 1..10 : Digits[i] = c) - 1

AllDigits(s) == \A i \in 1..Len(s) : IsDigit(s[i])

\* Value of a string of decimal digits.
RECURSIVE DigitsToInt(_)
DigitsToInt(s) ==
    IF s = <<>> THEN 0
    ELSE 10 * DigitsToInt(SubSeq(s, 1, Len(s) - 1)) + DigitVal(s[Len(s)])

\* Number.prototype.toString for an integer.
RECURSIVE NatToString(_)
NatToString(n) ==
    IF n < 10 THEN <<Digits[n + 1]>>
    ELSE NatToString(n \div 10) \o <<Digits[(n % 10) + 1]>>

IntToString(n) == IF n < 0 THEN <<"-">> \o NatToString(0 - n) ELSE NatToString(n)

\* String.prototype.padStart(width, "0").
RECURSIVE padStart(_, _)
padStart(s, width) == IF Len(s) >= width THEN s ELSE padStart(<<"0">> \o s, width)

\* String.prototype.split on a set of one-character separators.
RECURSIVE SplitOn(_, _)
SplitOn(s, seps) ==
    IF \A i \in 1..Len(s) : s[i] \notin seps THEN <<s>>
    ELSE LET k == CHOOSE i \in 1..Len(s) :
                      s[i] \in seps /\ \A j \in 1..(i - 1) : s[j] \notin seps
         IN  <<SubSeq(s, 1, k - 1)>> \o SplitOn(SubSeq(s, k + 1, Len(s)), seps)

\* ToNumber of a string: "" is 0, decimal digits are their value, else NaN.
NumericOk(s) == AllDigits(s)

(***************************************************************************)
(* Calendar arithmetic behind Date                                         *)
(***************************************************************************)
IsLeap(y) == (y % 4 = 0 /\ y % 100 # 0) \/ y % 400 = 0

DaysInMonth(y, m) ==
    IF m = 2 THEN (IF IsLeap(y) THEN 29 ELSE 28)
    ELSE IF m \in {4, 6, 9, 11} THEN 30 ELSE 31

\* Days since 1970-01-01 of the proleptic Gregorian date y-m-d (m in 1..12).
DaysFromCivil(y, m, d) ==
    LET yy  == IF m <= 2 THEN y - 1 ELSE y
        era == yy \div 400
        yoe == yy - era * 400
        mp  == IF m > 2 THEN m - 3 ELSE m + 9
        doy == (153 * mp + 2) \div 5 + d - 1
        doe == yoe * 365 + yoe \div 4 - yoe \div 100 + doy
    IN  era * 146097 + doe - 719468

\* <<year, month, day>> of a day number.
CivilFromDays(n) ==
    LET z   == n + 719468
        era == z \div 146097
        doe == z - era * 146097
        yoe == (doe - doe \div 1460 + doe \div 36524 - doe \div 146096) \div 365
        doy == doe - (365 * yoe + yoe \div 4 - yoe \div 100)
        mp  == (5 * doy + 2) \div 153
        d   == doy - (153 * mp + 2) \div 5 + 1
        m   == IF mp < 10 THEN mp + 3 ELSE mp - 9
        y   == yoe + era * 400 + (IF m <= 2 THEN 1 ELSE 0)
    IN  <<y, m, d>>

\* Date.prototype.getDay: 0 = Sunday; day 0 (1970-01-01) is a Thursday.
getDay(n) == (n + 4) % 7

InvalidDate == [valid |-> FALSE, day |-> 0]
DateOfDay(n) == [valid |-> TRUE, day |-> n]

\* The time range of a Date: 100,000,000 days either side of the epoch.
MaxDateDays == 100000000

\* MakeDay: a month index outside 0..11 and a day outside the month roll over.
MakeDay(y, mi, d) == DaysFromCivil(y + mi \div 12, (mi % 12) + 1, 1) + d - 1

TimeClip(n) == IF n > MaxDateDays \/ n < 0 - MaxDateDays THEN InvalidDate ELSE DateOfDay(n)

MsPerDay == 86400000

\* new Date(year, monthIndex, day) on strings already split out of the input:
\* each argument goes through ToNumber, a year 0..99 means 1900 + year.
NewDateYMD(yStr, mStr, mAdj, dStr) ==
    IF ~NumericOk(yStr) \/ ~NumericOk(mStr) \/ ~NumericOk(dStr) THEN InvalidDate
    ELSE LET y  == DigitsToInt(yStr)
             yr == IF y >= 0 /\ y <= 99 THEN 1900 + y ELSE y
         IN  TimeClip(MakeDay(yr, DigitsToInt(mStr) + mAdj, DigitsToInt(dStr)))

\* new Date(value) for a non-string value: a number is milliseconds since
\* the epoch, null is 0, undefined is NaN.
NewDateValue(x) ==
    IF x.t = "number" THEN
        (IF IsNaN(x.v) THEN InvalidDate ELSE TimeClip(Trunc(x.v) \div MsPerDay))
    ELSE IF x.t = "null" THEN DateOfDay(0)
    ELSE InvalidDate

(***************************************************************************)
(* date-fns: parseISO, isValid, getISOWeek, getYear                        *)
(***************************************************************************)
isLeapYearIndex(year) == year % 400 = 0 \/ (year % 4 = 0 /\ year % 100 # 0)

validateDate(year, month, day) ==
    /\ month >= 0 /\ month <= 11
    /\ day >= 1
    /\ day <= (IF month = 1 THEN (IF isLeapYearIndex(year) THEN 29 ELSE 28)
                ELSE DaysInMonth(year, month + 1))

validateDayOfYearDate(year, dayOfYear) ==
    dayOfYear >= 1 /\ dayOfYear <= (IF isLeapYearIndex(year) THEN 366 ELSE 365)

\* parseYear: /^(?:(\d{4}|[+-]\d{6})|(\d{2}|[+-]\d{4})$)/ (additionalDigits = 2).
parseYear(s) ==
    LET signed == Len(s) >= 1 /\ s[1] = "-"
    IN  IF Len(s) >= 4 /\ AllDigits(SubSeq(s, 1, 4)) THEN
            [ok |-> TRUE, year |-> DigitsToInt(SubSeq(s, 1, 4)), rest |-> SubSeq(s, 5, Len(s))]
        ELSE IF signed /\ Len(s) >= 7 /\ AllDigits(SubSeq(s, 2, 7)) THEN
            [ok |-> TRUE, year |-> 0 - DigitsToInt(SubSeq(s, 2, 7)), rest |-> SubSeq(s, 8, Len(s))]
        ELSE IF Len(s) = 2 /\ AllDigits(s) THEN
            [ok |-> TRUE, year |-> 100 * DigitsToInt(s), rest |-> <<>>]
        ELSE IF signed /\ Len(s) = 5 /\ AllDigits(SubSeq(s, 2, 5)) THEN
            [ok |-> TRUE, year |-> 0 - 100 * DigitsToInt(SubSeq(s, 2, 5)), rest |-> <<>>]
        ELSE [ok |-> FALSE, year |-> 0, rest |-> <<>>]

\* parseDate: /^-?(?:(\d{3})|(\d{2})(?:-?(\d{2}))?|W(\d{2})(?:-?(\d{1}))?|)$/;
\* week dates (W) are outside the modelled alphabet.
parseDate(rest, year) ==
    LET r == IF Len(rest) >= 1 /\ rest[1] = "-" THEN SubSeq(rest, 2, Len(rest)) ELSE rest
        ymd(month, day) ==
            IF validateDate(year, month, day)
            THEN DateOfDay(MakeDay(year, month, day)) ELSE InvalidDate
    IN  IF r = <<>> THEN ymd(0, 1)
        ELSE IF Len(r) = 3 /\ AllDigits(r) THEN
            (IF validateDayOfYearDate(year, DigitsToInt(r))
             THEN DateOfDay(MakeDay(year, 0, DigitsToInt(r))) ELSE InvalidDate)
        ELSE IF Len(r) = 2 /\ AllDigits(r) THEN ymd(DigitsToInt(r) - 1, 1)
        ELSE IF Len(r) = 4 /\ AllDigits(r) THEN
            ymd(DigitsToInt(SubSeq(r, 1, 2)) - 1, DigitsToInt(SubSeq(r, 3, 4)))
        ELSE IF Len(r) = 5 /\ r[3] = "-" /\ AllDigits(SubSeq(r, 1, 2)) /\ AllDigits(SubSeq(r, 4, 5)) THEN
            ymd(DigitsToInt(SubSeq(r, 1, 2)) - 1, DigitsToInt(SubSeq(r, 4, 5)))
        ELSE InvalidDate

parseISO(s) ==
    LET py == parseYear(s)
    IN  IF s = <<>> \/ ~py.ok THEN InvalidDate ELSE parseDate(py.rest, py.year)

isValid(d) == d.valid

getYear(d) == CivilFromDays(d.day)[1]

\* startOfISOWeek: the Monday on or before the day.
startOfISOWeek(n) == n - ((getDay(n) + 6) % 7)

getISOWeekYear(n) ==
    LET year            == CivilFromDays(n)[1]
        startOfNextYear == startOfISOWeek(DaysFromCivil(year + 1, 1, 4))
        startOfThisYear == startOfISOWeek(DaysFromCivil(year, 1, 4))
    IN  IF n >= startOfNextYear THEN year + 1
        ELSE IF n >= startOfThisYear THEN year
        ELSE year - 1

startOfISOWeekYear(n) == startOfISOWeek(DaysFromCivil(getISOWeekYear(n), 1, 4))

getISOWeek(d) == (startOfISOWeek(d.day) - startOfISOWeekYear(d.day)) \div 7 + 1

(***************************************************************************)
(* getWeekNumber (lines 12-56)                                             *)
(***************************************************************************)
\* `${year}-W${paddedWeek}`
FormatWeekKey(year, weekNum) ==
    IntToString(year) \o <<"-", "W">> \o padStart(IntToString(weekNum), 2)

\* new Date(`${parts[2]}-${parts[0]}-${parts[1]}`): Date.parse takes the
\* ISO form YYYY-MM-DD itself and hands any other string to the host's own
\* parser, whose result the language leaves to the implementation.
NewDateString(s, host) ==
    IF Len(s) = 10 /\ AllDigits(SubSeq(s, 1, 4)) /\ s[5] = "-" /\ AllDigits(SubSeq(s, 6, 7))
       /\ s[8] = "-" /\ AllDigits(SubSeq(s, 9, 10))
       /\ validateDate(DigitsToInt(SubSeq(s, 1, 4)), DigitsToInt(SubSeq(s, 6, 7)) - 1,
                       DigitsToInt(SubSeq(s, 9, 10)))
    THEN DateOfDay(MakeDay(DigitsToInt(SubSeq(s, 1, 4)), DigitsToInt(SubSeq(s, 6, 7)) - 1,
                           DigitsToInt(SubSeq(s, 9, 10))))
    ELSE host

\* potentialDates with the day/month/year candidate first.
potentialDatesDayFirst(parts, host) ==
    << NewDateYMD(parts[3], parts[2], 0 - 1, parts[1]),
       NewDateYMD(parts[3], parts[1], 0 - 1, parts[2]),
       NewDateString(parts[3] \o <<"-">> \o parts[1] \o <<"-">> \o parts[2], host) >>

\* potentialDates (lines 26-30), in order.
potentialDates(parts, host) ==
    << NewDateYMD(parts[3], parts[1], 0 - 1, parts[2]),
       NewDateYMD(parts[3], parts[2], 0 - 1, parts[1]),
       NewDateString(parts[3] \o <<"-">> \o parts[1] \o <<"-">> \o parts[2], host) >>

\* Array.prototype.find(d => isValid(d)): the first valid one, else undefined.
FindValid(ds) ==
    IF \E i \in 1..Len(ds) : isValid(ds[i])
    THEN ds[CHOOSE i \in 1..Len(ds) : isValid(ds[i]) /\ \A j \in 1..(i - 1) : ~isValid(ds[j])]
    ELSE InvalidDate

\* Lines 15-38: the Date the argument resolves to (Invalid Date when the
\* local stays undefined or invalid).
ResolveDate(x, host) ==
    IF x.t = "string" THEN
        LET iso == parseISO(x.v)
        IN  IF isValid(iso) THEN iso
            ELSE LET parts == SplitOn(x.v, {"-", "/"})
                 IN  IF Len(parts) = 3 THEN FindValid(potentialDates(parts, host))
                     ELSE iso
    ELSE NewDateValue(x)

\* Lines 40-55: the week key of a resolved date, null when it is invalid.
WeekKeyOfDate(d) ==
    IF ~isValid(d) THEN Null ELSE Str(FormatWeekKey(getYear(d), getISOWeek(d)))

getWeekNumber(x, host) == WeekKeyOfDate(ResolveDate(x, host))

(***************************************************************************)
(* Records, field access and plain objects                                 *)
(***************************************************************************)
\* record[name]: undefined when the record has no such field.
Field(r, name) == IF name \in DOMAIN r THEN r[name] ELSE Undefined

\* ToBoolean.
Truthy(x) ==
    IF x.t = "string" THEN x.v # <<>>
    ELSE IF x.t = "number" THEN ~IsNaN(x.v) /\ x.v # Zero
    ELSE FALSE

\* a || b
Or(a, b) == IF Truthy(a) THEN a ELSE b

\* The digits a string starts with.
RECURSIVE DigitPrefix(_)
DigitPrefix(s) ==
    IF s = <<>> \/ ~IsDigit(s[1]) THEN <<>>
    ELSE <<s[1]>> \o DigitPrefix(SubSeq(s, 2, Len(s)))

\* parseInt(x, 10): of a string, the integer its leading digits spell (NaN
\* without any); of a number, its integer part.
parseInt(x) ==
    IF x.t = "string" THEN
        LET neg  == Len(x.v) >= 1 /\ x.v[1] = "-"
            body == IF neg THEN SubSeq(x.v, 2, Len(x.v)) ELSE x.v
            ds   == DigitPrefix(body)
        IN  IF ds = <<>> THEN NaN
            ELSE Int2Rat(IF neg THEN 0 - DigitsToInt(ds) ELSE DigitsToInt(ds))
    ELSE IF x.t = "number" THEN (IF IsNaN(x.v) THEN NaN ELSE Int2Rat(Trunc(x.v)))
    ELSE NaN

\* 10^n
RECURSIVE Pow10(_)
Pow10(n) == IF n = 0 THEN 1 ELSE 10 * Pow10(n - 1)

\* parseFloat(x): of a string, the decimal its leading characters spell; of a
\* number, the number.
parseFloat(x) ==
    IF x.t = "string" THEN
        LET neg  == Len(x.v) >= 1 /\ x.v[1] = "-"
            body == IF neg THEN SubSeq(x.v, 2, Len(x.v)) ELSE x.v
            ip   == DigitPrefix(body)
            rest == SubSeq(body, Len(ip) + 1, Len(body))
            fp   == IF Len(rest) >= 1 /\ rest[1] = "." THEN DigitPrefix(SubSeq(rest, 2, Len(rest)))
                    ELSE <<>>
            mag  == Rat(DigitsToInt(ip \o fp), Pow10(Len(fp)))
        IN  IF ip = <<>> /\ fp = <<>> THEN NaN
            ELSE IF neg THEN RatSub(Zero, mag) ELSE mag
    ELSE IF x.t = "number" THEN x.v
    ELSE NaN

\* A plain object is the sequence of its <<key, value>> pairs in insertion
\* order (the order Object.keys and Object.values list them in).
Has(o, k)    == \E i \in 1..Len(o) : o[i][1] = k
Lookup(o, k) == o[CHOOSE i \in 1..Len(o) : o[i][1] = k][2]
PutAt(o, i, k, val) == SubSeq(o, 1, i - 1) \o << <<k, val>> >> \o SubSeq(o, i + 1, Len(o))
Put(o, k, val) ==
    IF Has(o, k) THEN PutAt(o, CHOOSE i \in 1..Len(o) : o[i][1] = k, k, val)
    ELSE Append(o, <<k, val>>)
Keys(o)   == [i \in 1..Len(o) |-> o[i][1]]
Values(o) == [i \in 1..Len(o) |-> o[i][2]]

\* The property key a value is used as: a string is itself, an integer its digits.
ToKey(x) == IF x.t = "number" THEN IntToString(Trunc(x.v)) ELSE x.v

\* obj[k] || 0 for an object of numbers.
GetOr0(o, k) == IF Has(o, k) THEN Lookup(o, k) ELSE Zero

(***************************************************************************)
(* processProductData (lines 328-349)                                      *)
(***************************************************************************)
\* Lines 341-345.
ProductAccept(productMap, productName, unitsPerCase) ==
    IF Truthy(productName) /\ ~IsNaN(unitsPerCase) /\ RatLess(Zero, unitsPerCase)
    THEN Put(productMap, ToKey(productName), unitsPerCase)
    ELSE productMap

\* Line 338.
ProductNameOf(product) ==
    Or(Or(Or(Field(product, "Product Name"), Field(product, "ProductName")),
          Field(product, "Name")), Field(product, "Product"))

\* Line 339: the argument of parseInt, '1' when no alias has a truthy value.
UnitsPerCaseOf(product) ==
    Or(Or(Or(Field(product, "Units Per Case"), Field(product, "UnitsPerCase")),
          Field(product, "Units")), Str(<<"1">>))

\* Lines 336-346: one round of products.forEach.
ProductStep(productMap, product) ==
    ProductAccept(productMap, ProductNameOf(product), parseInt(UnitsPerCaseOf(product)))

RECURSIVE processProductData(_)
processProductData(products) ==
    IF products = <<>> THEN <<>>
    ELSE ProductStep(processProductData(SubSeq(products, 1, Len(products) - 1)),
                     products[Len(products)])

(***************************************************************************)
(* processSalesData (lines 351-402)                                        *)
(***************************************************************************)
\* SalesAdd overwriting the (store, week) bucket instead of adding to it.
SalesAddStoreOverwrite(acc, week, store, byWk, cases) ==
    [ salesByWeek |->
          Put(acc.salesByWeek, week, RatAdd(GetOr0(acc.salesByWeek, week), cases)),
      salesByStoreAndWeek |-> Put(acc.salesByStoreAndWeek, store, Put(byWk, week, cases)) ]

\* Lines 385-398: add the cases to the week bucket and the (store, week) bucket.
SalesAdd(acc, week, store, byWk, cases) ==
    [ salesByWeek |->
          Put(acc.salesByWeek, week, RatAdd(GetOr0(acc.salesByWeek, week), cases)),
      salesByStoreAndWeek |->
          Put(acc.salesByStoreAndWeek, store, Put(byWk, week, RatAdd(GetOr0(byWk, week), cases))) ]

\* Lines 379-383: the cases of the record and its week; skip when the date fails.
SalesBucket(acc, week, store, cases) ==
    IF week.t # "string" THEN acc
    ELSE SalesAdd(acc, week.v, store,
                  IF Has(acc.salesByStoreAndWeek, store)
                  THEN Lookup(acc.salesByStoreAndWeek, store) ELSE <<>>,
                  cases)

\* SalesAccept counting a product the map does not have as 1 unit per case.
SalesAcceptUnknownAsUnit(acc, product, quantity, customer, deliveryDate, productMap, host) ==
    IF ~Truthy(product) \/ ~Truthy(Num(quantity)) \/ ~Truthy(deliveryDate)
       \/ IsNaN(quantity) \/ RatLeq(quantity, Zero)
    THEN acc
    ELSE SalesBucket(acc, getWeekNumber(deliveryDate, host), ToKey(customer),
                     RatDiv(quantity, IF Has(productMap, ToKey(product))
                                      THEN Lookup(productMap, ToKey(product)) ELSE Int2Rat(1)))

\* Lines 367-383: the skip conditions, the lookup, the conversion to cases.
SalesAccept(acc, product, quantity, customer, deliveryDate, productMap, host) ==
    IF ~Truthy(product) \/ ~Truthy(Num(quantity)) \/ ~Truthy(deliveryDate)
       \/ IsNaN(quantity) \/ RatLeq(quantity, Zero)
    THEN acc
    ELSE IF ~Has(productMap, ToKey(product)) THEN acc
    ELSE SalesBucket(acc, getWeekNumber(deliveryDate, host), ToKey(customer),
                     RatDiv(quantity, Lookup(productMap, ToKey(product))))

\* Line 362.
SalesProductOf(order) ==
    Or(Or(Field(order, "Product"), Field(order, "Product Name")), Field(order, "ProductName"))

\* Line 363: the argument of parseInt.
SalesQuantityOf(order) == Or(Or(Field(order, "Quantity"), Field(order, "Qty")), Num(Zero))

\* Line 364.
SalesCustomerOf(order) ==
    Or(Or(Or(Field(order, "Customer"), Field(order, "Store")), Field(order, "Client")),
       Str(<<"U", "n", "k", "n", "o", "w", "n">>))

\* Line 365.
SalesDateOf(order) ==
    Or(Or(Field(order, "Delivery Date"), Field(order, "DeliveryDate")), Field(order, "Date"))

\* Lines 360-399: one round of salesOrders.forEach.
SalesStep(acc, order, productMap, host) ==
    SalesAccept(acc, SalesProductOf(order), parseInt(SalesQuantityOf(order)),
                SalesCustomerOf(order), SalesDateOf(order), productMap, host)

RECURSIVE processSalesData(_, _, _)
processSalesData(salesOrders, productMap, host) ==
    IF salesOrders = <<>> THEN [salesByWeek |-> <<>>, salesByStoreAndWeek |-> <<>>]
    ELSE SalesStep(processSalesData(SubSeq(salesOrders, 1, Len(salesOrders) - 1), productMap, host),
                   salesOrders[Len(salesOrders)], productMap, host)

(***************************************************************************)
(* processPurchaseData (lines 404-444)                                     *)
(***************************************************************************)
\* Lines 432-440: skip when the date fails, else add to the week bucket.
PurchaseBucket(poByWeek, week, cases) ==
    IF week.t # "string" THEN poByWeek
    ELSE Put(poByWeek, week.v, RatAdd(GetOr0(poByWeek, week.v), cases))

\* PurchaseAccept without the quantity tests of line 419.
PurchaseAcceptAnyQuantity(poByWeek, product, quantity, poDate, productMap, host) ==
    IF ~Truthy(product) \/ ~Truthy(poDate) \/ IsNaN(quantity)
    THEN poByWeek
    ELSE IF ~Has(productMap, ToKey(product)) THEN poByWeek
    ELSE PurchaseBucket(poByWeek, getWeekNumber(poDate, host),
                        RatDiv(quantity, Lookup(productMap, ToKey(product))))

\* Lines 418-434.
PurchaseAccept(poByWeek, product, quantity, poDate, productMap, host) ==
    IF ~Truthy(product) \/ ~Truthy(Num(quantity)) \/ ~Truthy(poDate)
       \/ IsNaN(quantity) \/ RatLeq(quantity, Zero)
    THEN poByWeek
    ELSE IF ~Has(productMap, ToKey(product)) THEN poByWeek
    ELSE PurchaseBucket(poByWeek, getWeekNumber(poDate, host),
                        RatDiv(quantity, Lookup(productMap, ToKey(product))))

\* Line 414.
PurchaseProductOf(po) ==
    Or(Or(Field(po, "Product Name"), Field(po, "Product")), Field(po, "ProductName"))

\* Line 415: the argument of parseInt.
PurchaseQuantityOf(po) ==
    Or(Or(Or(Field(po, "Purchase Quantity"), Field(po, "Quantity")), Field(po, "Qty")), Num(Zero))

\* Line 416.
PurchaseDateOf(po) ==
    Or(Or(Field(po, "Purchase Order Date"), Field(po, "PODate")), Field(po, "Date"))

\* Lines 412-441: one round of purchaseOrders.forEach.
PurchaseStep(poByWeek, po, productMap, host) ==
    PurchaseAccept(poByWeek, PurchaseProductOf(po), parseInt(PurchaseQuantityOf(po)),
                   PurchaseDateOf(po), productMap, host)

RECURSIVE processPurchaseData(_, _, _)
processPurchaseData(purchaseOrders, productMap, host) ==
    IF purchaseOrders = <<>> THEN <<>>
    ELSE PurchaseStep(processPurchaseData(SubSeq(purchaseOrders, 1, Len(purchaseOrders) - 1),
                                          productMap, host),
                      purchaseOrders[Len(purchaseOrders)], productMap, host)

(***************************************************************************)
(* processClockData (lines 446-474)                                        *)
(***************************************************************************)
\* Lines 464-470.
ClockBucket(laborHoursByWeek, week, laborHours) ==
    IF week.t # "string" THEN laborHoursByWeek
    ELSE Put(laborHoursByWeek, week.v, RatAdd(GetOr0(laborHoursByWeek, week.v), laborHours))

\* ClockAccept without the laborHours <= 0 test.
ClockAcceptAnyHours(laborHoursByWeek, dateIn, laborHours, host) ==
    IF ~Truthy(dateIn) \/ IsNaN(laborHours)
    THEN laborHoursByWeek
    ELSE ClockBucket(laborHoursByWeek, getWeekNumber(dateIn, host), laborHours)

\* Lines 459-465.
ClockAccept(laborHoursByWeek, dateIn, laborHours, host) ==
    IF ~Truthy(dateIn) \/ IsNaN(laborHours) \/ RatLeq(laborHours, Zero)
    THEN laborHoursByWeek
    ELSE ClockBucket(laborHoursByWeek, getWeekNumber(dateIn, host), laborHours)

\* Line 456.
ClockDateOf(clock) ==
    Or(Or(Field(clock, "Date In"), Field(clock, "DateIn")), Field(clock, "Date"))

\* Line 457: the argument of parseFloat.
ClockHoursOf(clock) ==
    Or(Or(Or(Field(clock, "Total Less Break"), Field(clock, "TotalLessBreak")),
          Field(clock, "Hours")), Num(Zero))

\* Lines 454-471: one round of clocks.forEach.
ClockStep(laborHoursByWeek, clock, host) ==
    ClockAccept(laborHoursByWeek, ClockDateOf(clock), parseFloat(ClockHoursOf(clock)), host)

RECURSIVE processClockData(_, _)
processClockData(clockRows, host) ==
    IF clockRows = <<>> THEN <<>>
    ELSE ClockStep(processClockData(SubSeq(clockRows, 1, Len(clockRows) - 1), host),
                   clockRows[Len(clockRows)], host)

(***************************************************************************)
(* calculateMetrics (lines 476-590)                                        *)
(***************************************************************************)
\* [...new Set(xs)]: the first occurrence of every element, in order.
RECURSIVE Uniq(_)
Uniq(xs) ==
    IF xs = <<>> THEN <<>>
    ELSE LET front == Uniq(SubSeq(xs, 1, Len(xs) - 1))
             x     == xs[Len(xs)]
         IN  IF \E i \in 1..Len(front) : front[i] = x THEN front ELSE Append(front, x)

\* k.split('-W')
splitWeekKey(k) ==
    IF \E i \in 1..(Len(k) - 1) : k[i] = "-" /\ k[i + 1] = "W" THEN
        LET i == CHOOSE i \in 1..(Len(k) - 1) :
                     /\ k[i] = "-" /\ k[i + 1] = "W"
                     /\ \A j \in 1..(i - 1) : ~(k[j] = "-" /\ k[j + 1] = "W")
        IN  <<SubSeq(k, 1, i - 1), SubSeq(k, i + 2, Len(k))>>
    ELSE <<k, <<>>>>

\* compareWeeks comparing the week numbers alone.
compareWeekNumbersOnly(a, b) ==
    RatSub(parseInt(Str(splitWeekKey(a)[2])), parseInt(Str(splitWeekKey(b)[2])))

\* The sort comparator of lines 507-518: negative when a goes before b.
compareWeeks(a, b) ==
    LET pa == splitWeekKey(a)
        pb == splitWeekKey(b)
    IN  IF pa[1] # pb[1]
        THEN RatSub(parseInt(Str(pa[1])), parseInt(Str(pb[1])))
        ELSE RatSub(parseInt(Str(pa[2])), parseInt(Str(pb[2])))

\* Array.prototype.sort with compareWeeks (a stable sort).
InsertWeek(sorted, x) ==
    IF \E i \in 1..Len(sorted) : RatLess(Zero, compareWeeks(sorted[i], x)) THEN
        LET i == CHOOSE i \in 1..Len(sorted) :
                     /\ RatLess(Zero, compareWeeks(sorted[i], x))
                     /\ \A j \in 1..(i - 1) : ~RatLess(Zero, compareWeeks(sorted[j], x))
        IN  SubSeq(sorted, 1, i - 1) \o <<x>> \o SubSeq(sorted, i, Len(sorted))
    ELSE Append(sorted, x)

RECURSIVE sortWeeks(_)
sortWeeks(ws) ==
    IF ws = <<>> THEN <<>>
    ELSE InsertWeek(sortWeeks(SubSeq(ws, 1, Len(ws) - 1)), ws[Len(ws)])

\* allWeeksOf without the labor weeks.
allWeeksOfSalesAndPO(salesByWeek, poByWeek, laborHoursByWeek) ==
    sortWeeks(Uniq(Keys(salesByWeek) \o Keys(poByWeek)))

\* Lines 503-518.
allWeeksOf(salesByWeek, poByWeek, laborHoursByWeek) ==
    sortWeeks(Uniq(Keys(salesByWeek) \o Keys(poByWeek) \o Keys(laborHoursByWeek)))

\* values.reduce((sum, cases) => sum + cases, 0)
RECURSIVE SumSeq(_)
SumSeq(xs) == IF xs = <<>> THEN Zero ELSE RatAdd(SumSeq(SubSeq(xs, 1, Len(xs) - 1)), xs[Len(xs)])

\* Lines 551-554.
storeTotalOf(salesByStoreAndWeek) ==
    [i \in 1..Len(salesByStoreAndWeek) |->
        <<salesByStoreAndWeek[i][1], SumSeq(Values(salesByStoreAndWeek[i][2]))>>]

\* Array.prototype.sort with (a, b) => storeTotal[b] - storeTotal[a] (stable).
InsertStore(sorted, x, storeTotal) ==
    LET after(e) == RatLess(Zero, RatSub(Lookup(storeTotal, x), Lookup(storeTotal, e)))
    IN  IF \E i \in 1..Len(sorted) : after(sorted[i]) THEN
            LET i == CHOOSE i \in 1..Len(sorted) :
                         after(sorted[i]) /\ \A j \in 1..(i - 1) : ~after(sorted[j])
            IN  SubSeq(sorted, 1, i - 1) \o <<x>> \o SubSeq(sorted, i, Len(sorted))
        ELSE Append(sorted, x)

\* sortStores leaving the stores in the order of Object.keys.
sortStoresUnsorted(stores, storeTotal) == stores

RECURSIVE sortStores(_, _)
sortStores(stores, storeTotal) ==
    IF stores = <<>> THEN <<>>
    ELSE InsertStore(sortStores(SubSeq(stores, 1, Len(stores) - 1), storeTotal),
                     stores[Len(stores)], storeTotal)

TopN == 10

\* array.slice(0, n)
Slice0(xs, n) == SubSeq(xs, 1, IF Len(xs) < n THEN Len(xs) ELSE n)

\* weekMetrics dividing without the laborHours > 0 test.
weekMetricsUnguarded(week, salesByWeek, poByWeek, laborHoursByWeek) ==
    [ week |-> week,
      receivedCases |-> GetOr0(poByWeek, week),
      shippedCases |-> GetOr0(salesByWeek, week),
      laborHours |-> GetOr0(laborHoursByWeek, week),
      totalCasesPerLaborHour |->
          RatDiv(RatAdd(GetOr0(poByWeek, week), GetOr0(salesByWeek, week)),
                 GetOr0(laborHoursByWeek, week)) ]

\* Lines 526-539: one entry of casesPerLaborHourByWeek.
weekMetrics(week, salesByWeek, poByWeek, laborHoursByWeek) ==
    LET receivedCases == GetOr0(poByWeek, week)
        shippedCases  == GetOr0(salesByWeek, week)
        laborHours    == GetOr0(laborHoursByWeek, week)
    IN  [ week |-> week,
          receivedCases |-> receivedCases,
          shippedCases |-> shippedCases,
          laborHours |-> laborHours,
          totalCasesPerLaborHour |->
              IF RatLess(Zero, laborHours)
              THEN RatDiv(RatAdd(receivedCases, shippedCases), laborHours) ELSE Zero ]

\* Lines 542-548.
formattedWeeklyData(allWeeks, salesByWeek, poByWeek, laborHoursByWeek) ==
    [i \in 1..Len(allWeeks) |->
        [ week |-> allWeeks[i],
          received |-> GetOr0(poByWeek, allWeeks[i]),
          shipped |-> GetOr0(salesByWeek, allWeeks[i]),
          laborHours |-> GetOr0(laborHoursByWeek, allWeeks[i]),
          totalCasesPerLaborHour |->
              weekMetrics(allWeeks[i], salesByWeek, poByWeek, laborHoursByWeek)
                  .totalCasesPerLaborHour ]]

\* Lines 567-576: allWeeks.forEach(week => allStores.forEach(store => push)).
allStoreDataDense(allWeeks, allStores, salesByStoreAndWeek) ==
    [n \in 1..(Len(allWeeks) * Len(allStores)) |->
        LET week  == allWeeks[((n - 1) \div Len(allStores)) + 1]
            store == allStores[((n - 1) % Len(allStores)) + 1]
        IN  [ week |-> week,
              cases |-> IF Has(salesByStoreAndWeek, store)
                        THEN GetOr0(Lookup(salesByStoreAndWeek, store), week) ELSE Zero,
              store |-> store ]]

\* array.filter(keep)
RECURSIVE FilterNonZero(_)
FilterNonZero(entries) ==
    IF entries = <<>> THEN <<>>
    ELSE LET front == FilterNonZero(SubSeq(entries, 1, Len(entries) - 1))
         IN  IF entries[Len(entries)].cases = Zero THEN front
             ELSE Append(front, entries[Len(entries)])

\* allStoreDataOf leaving out the pairs without cases.
allStoreDataSparse(allWeeks, allStores, salesByStoreAndWeek) ==
    FilterNonZero(allStoreDataDense(allWeeks, allStores, salesByStoreAndWeek))

allStoreDataOf(allWeeks, allStores, salesByStoreAndWeek) ==
    allStoreDataDense(allWeeks, allStores, salesByStoreAndWeek)

\* What a call leaves behind: how it ended, the Error message when it threw,
\* the returned object when it returned, and how far the body got.
Outcome(status, message, reached, locals, fields) ==
    [ status |-> status, message |-> message, reached |-> reached,
      productMap |-> locals[1], salesByWeek |-> locals[2], salesByStoreAndWeek |-> locals[3],
      poByWeek |-> locals[4], laborHoursByWeek |-> locals[5],
      casesPerLaborHour |-> fields[1], salesAndPOByWeek |-> fields[2],
      topStoresByWeek |-> fields[3], allStoreData |-> fields[4],
      allStores |-> fields[5], weeks |-> fields[6] ]

NoFields == << <<>>, <<>>, <<>>, <<>>, <<>>, <<>> >>

\* The locals of calculateMetrics at the point the call ended.
Locals(productMap, sales, poByWeek, laborHoursByWeek) ==
    <<productMap, sales.salesByWeek, sales.salesByStoreAndWeek, poByWeek, laborHoursByWeek>>

NoSales == [salesByWeek |-> <<>>, salesByStoreAndWeek |-> <<>>]

\* Lines 578-585: the returned object.
composeResult(productMap, sales, poByWeek, laborHoursByWeek, allWeeks, storeTotal, allStores) ==
    Outcome("returned", "", "end", Locals(productMap, sales, poByWeek, laborHoursByWeek),
        << [i \in 1..Len(allWeeks) |->
               weekMetrics(allWeeks[i], sales.salesByWeek, poByWeek, laborHoursByWeek)],
           formattedWeeklyData(allWeeks, sales.salesByWeek, poByWeek, laborHoursByWeek),
           [i \in 1..Len(Slice0(allStores, TopN)) |->
               [store |-> allStores[i], total |-> Lookup(storeTotal, allStores[i])]],
           allStoreDataOf(allWeeks, allStores, sales.salesByStoreAndWeek),
           allStores,
           allWeeks >>)

\* Lines 550-558: the store totals and the stores sorted by them.
composeStores(productMap, sales, poByWeek, laborHoursByWeek, allWeeks, storeTotal) ==
    composeResult(productMap, sales, poByWeek, laborHoursByWeek, allWeeks, storeTotal,
                  sortStores(Keys(storeTotal), storeTotal))

\* composeWeeks without the early exit of lines 520-523.
composeWeeksNoExit(productMap, sales, poByWeek, laborHoursByWeek, allWeeks) ==
    composeStores(productMap, sales, poByWeek, laborHoursByWeek, allWeeks,
                  storeTotalOf(sales.salesByStoreAndWeek))

\* Lines 520-523: no week at all throws, rethrown by the catch of lines 586-589.
composeWeeks(productMap, sales, poByWeek, laborHoursByWeek, allWeeks) ==
    IF Len(allWeeks) = 0
    THEN Outcome("thrown", "No valid data weeks found", "weeks",
                 Locals(productMap, sales, poByWeek, laborHoursByWeek), NoFields)
    ELSE composeStores(productMap, sales, poByWeek, laborHoursByWeek, allWeeks,
                       storeTotalOf(sales.salesByStoreAndWeek))

\* Lines 502-518.
compose(productMap, sales, poByWeek, laborHoursByWeek) ==
    composeWeeks(productMap, sales, poByWeek, laborHoursByWeek,
                 allWeeksOf(sales.salesByWeek, poByWeek, laborHoursByWeek))

\* aggregate without the check of lines 480-482.
aggregateUnchecked(productMap, salesOrders, purchaseOrders, clockRows, host) ==
    compose(productMap,
            processSalesData(salesOrders, productMap, host),
            processPurchaseData(purchaseOrders, productMap, host),
            processClockData(clockRows, host))

\* aggregate throwing where lines 492-494 warn about the purchase orders.
aggregateStrictPurchases(productMap, salesOrders, purchaseOrders, clockRows, host) ==
    IF Len(Keys(productMap)) = 0
    THEN Outcome("thrown", "No valid products found", "products",
                 Locals(productMap, NoSales, <<>>, <<>>), NoFields)
    ELSE IF processPurchaseData(purchaseOrders, productMap, host) = <<>>
    THEN Outcome("thrown", "No valid purchase orders found", "purchases",
                 Locals(productMap, processSalesData(salesOrders, productMap, host), <<>>, <<>>),
                 NoFields)
    ELSE compose(productMap,
                 processSalesData(salesOrders, productMap, host),
                 processPurchaseData(purchaseOrders, productMap, host),
                 processClockData(clockRows, host))

\* Lines 480-500: an empty product map throws before any aggregator runs.
aggregate(productMap, salesOrders, purchaseOrders, clockRows, host) ==
    IF Len(Keys(productMap)) = 0
    THEN Outcome("thrown", "No valid products found", "products",
                 Locals(productMap, NoSales, <<>>, <<>>), NoFields)
    ELSE compose(productMap,
                 processSalesData(salesOrders, productMap, host),
                 processPurchaseData(purchaseOrders, productMap, host),
                 processClockData(clockRows, host))

calculateMetrics(products, salesOrders, purchaseOrders, clockRows, host) ==
    aggregate(processProductData(products), salesOrders, purchaseOrders, clockRows, host)

NotCalled == Outcome("none", "", "none", Locals(<<>>, NoSales, <<>>, <<>>), NoFields)

(***************************************************************************)
(* CumulativeVolumeChart (lines 181-192)                                   *)
(***************************************************************************)
\* prevData.cumulativeX || 0, read from an element of the array being mapped.
PropOr0(obj, name) == IF name \in DOMAIN obj /\ ~IsNaN(obj[name]) THEN obj[name] ELSE Zero

InitialPrev == [cumulativeReceived |-> Zero, cumulativeShipped |-> Zero]

\* One round of data.map((week, index, array) => ...).
cumulativeEntry(week, prevData) ==
    [ week |-> week.week,
      received |-> week.received,
      shipped |-> week.shipped,
      laborHours |-> week.laborHours,
      totalCasesPerLaborHour |-> week.totalCasesPerLaborHour,
      cumulativeReceived |-> RatAdd(PropOr0(prevData, "cumulativeReceived"), week.received),
      cumulativeShipped |-> RatAdd(PropOr0(prevData, "cumulativeShipped"), week.shipped) ]

\* prevData is read from `array`, the array map was called on.
cumulativeDataOf(data) ==
    [index \in 1..Len(data) |->
        cumulativeEntry(data[index], IF index > 1 THEN data[index - 1] ELSE InitialPrev)]

(***************************************************************************)
(* Dashboard state and the updates loadCSV and loadData make to it         *)
(* (lines 269-325, 593-626). In a run of loadData a loaded value is null   *)
(* or an array; a template string is the sequence of its pieces.           *)
(***************************************************************************)
Arr(rows) == [t |-> "array", v |-> rows]

\* What the aggregators see of a loaded value: lines 331, 355, 407 and 449
\* return the empty aggregate for a value that is not an array.
RowsOf(x) == IF x.t = "array" THEN x.v ELSE <<>>

Sources == {"products", "salesOrders", "purchaseOrders", "clocks"}

DATA_URLS ==
    [ products |-> "/data/Products2.csv", salesOrders |-> "/data/SalesOrder.csv",
      purchaseOrders |-> "/data/PO.csv", clocks |-> "/data/Clocks.csv" ]

\* useState of lines 280-285.
InitialRawDataState ==
    [products |-> Null, salesOrders |-> Null, purchaseOrders |-> Null, clocks |-> Null]

\* useState of lines 287-293.
InitialProcessedData ==
    [ casesPerLaborHour |-> <<>>, salesAndPOByWeek |-> <<>>, topStoresByWeek |-> <<>>,
      allStoresByWeek |-> <<>>, weeks |-> <<>> ]

\* useState of lines 295-304.
InitialLoadingState ==
    [ loading |-> TRUE, error |-> Null,
      dataProgress |-> [products |-> FALSE, salesOrders |-> FALSE,
                        purchaseOrders |-> FALSE, clocks |-> FALSE] ]

\* No loadCSV call made yet.
NoCalls == [name \in Sources |-> [status |-> "idle", value |-> Null]]

\* The Dashboard state of a run that does not mount the component.
Unmounted ==
    /\ processedData = InitialProcessedData
    /\ loadingState = InitialLoadingState
    /\ loadCSVCalls = NoCalls
    /\ calls = 0

\* Line 312: prev => ({ ...prev, [name]: csvData }), on a snapshot of the
\* first render instead of prev.
setRawDataFromSnapshot(prev, name, csvData) == [InitialRawDataState EXCEPT ![name] = csvData]

\* Line 312: prev => ({ ...prev, [name]: csvData }).
setRawData(prev, name, csvData) == [prev EXCEPT ![name] = csvData]

\* Lines 313-316: prev => ({ ...prev, dataProgress: { ...prev.dataProgress, [name]: true } }).
setProgress(prev, name) == [prev EXCEPT !.dataProgress[name] = TRUE]

\* Lines 319-322: error: `Error loading ${name} data: ${error.message}`.
setLoadError(prev, name, message) ==
    [prev EXCEPT !.error = Str(<<"Error loading ", name, " data: ">> \o message)]

\* Line 596: prev => ({ ...prev, loading: true, error: null }).
setLoadingStarted(prev) == [prev EXCEPT !.loading = TRUE, !.error = Null]

\* Line 615: prev => ({ ...prev, loading: false }).
setLoadingDone(prev) == [prev EXCEPT !.loading = FALSE]

\* The catch of loadData setting the error and leaving loading as it is.
setProcessingErrorOnly(prev, message) ==
    [prev EXCEPT !.error = Str(<<"Error processing data: ", message>>)]

\* Lines 617-621: loading: false, error: `Error processing data: ${err.message}`.
setProcessingError(prev, message) ==
    [prev EXCEPT !.loading = FALSE, !.error = Str(<<"Error processing data: ", message>>)]

\* Line 600 passing every value of products.
productsLoadedUnchecked(products) == TRUE

\* Line 600: if (!products) return.
productsLoaded(products) == products.t = "array"

\* Line 610: if (!salesOrders || !purchaseOrders || !clocks) return.
allLoaded(salesOrders, purchaseOrders, clocks) ==
    salesOrders.t = "array" /\ purchaseOrders.t = "array" /\ clocks.t = "array"

\* Line 614: the object calculateMetrics returned, handed to setProcessedData.
ReturnedObject(r) ==
    [ casesPerLaborHour |-> r.casesPerLaborHour, salesAndPOByWeek |-> r.salesAndPOByWeek,
      topStoresByWeek |-> r.topStoresByWeek, allStoreData |-> r.allStoreData,
      allStores |-> r.allStores, weeks |-> r.weeks ]

\* Lines 638-676: what the component renders from its state.
View(ls) ==
    IF ls.loading THEN "loading"
    ELSE IF Truthy(ls.error) THEN "error"
    ELSE "charts"

(***************************************************************************)
(* Inputs of the date runs                                                 *)
(***************************************************************************)
Months == {1, 2, 6, 12}

\* "YYYY-MM-DD"
FormatISO(y, m, d) ==
    padStart(IntToString(y), 4) \o <<"-">> \o padStart(IntToString(m), 2)
        \o <<"-">> \o padStart(IntToString(d), 2)

IsoStrings == { FormatISO(y, m, d) : y \in FirstYear..LastYear, m \in Months, d \in 1..MaxDay }

\* Components of the delimited strings "A/B/C" and "A-B-C".
Components ==
    { <<"0", "1">>, <<"0", "3">>, <<"0", "4">>, <<"0", "8">>, <<"1", "2">>, <<"1", "3">>,
      <<"2", "5">>, <<"3", "1">>, <<"2", "0", "2", "4">>, <<"x">>, <<>> }

Separators == {"-", "/"}

PartStrings == { a \o <<sep>> \o b \o <<sep>> \o c : a \in Components, b \in Components,
                                                    c \in Components, sep \in Separators }

\* Cells the CSV reader typed as numbers (dynamicTyping), e.g. 20240108.
NumberDates == { Num(Int2Rat(20240108)), Num(Int2Rat(0 - 1)) }

\* ISO strings whose four-digit year field holds a year below 1000.
EarlyYearStrings == { FormatISO(24, 1, 8), FormatISO(999, 12, 31) }

DateInputs == { Str(s) : s \in IsoStrings \cup PartStrings \cup EarlyYearStrings } \cup NumberDates

HostDates == { InvalidDate, DateOfDay(DaysFromCivil(2001, 1, 1)) }

\* rawDataState (lines 280-285) once the batches are in.
Batches(p, s, po, c) == [products |-> p, salesOrders |-> s, purchaseOrders |-> po, clocks |-> c]

(***************************************************************************)
(* The run of one getWeekNumber call                                       *)
(***************************************************************************)
InitWeek ==
    /\ hostDate \in HostDates
    /\ dateStr \in DateInputs
    /\ date = InvalidDate
    /\ weekKey = Undefined
    /\ otherStr = Undefined /\ otherKey = Undefined
    /\ rawDataState = Batches(<<>>, <<>>, <<>>, <<>>)
    /\ result = NotCalled
    /\ cumulativeData = <<>>
    /\ Unmounted
    /\ pc = "call"

\* getWeekNumber(dateStr), lines 12-56.
CallGetWeekNumber ==
    /\ pc = "call"
    /\ date' = ResolveDate(dateStr, hostDate)
    /\ weekKey' = getWeekNumber(dateStr, hostDate)
    /\ pc' = "returned"
    /\ UNCHANGED <<hostDate, dateStr, otherStr, otherKey, metricVars, loadVars>>

NextWeek == CallGetWeekNumber

SpecWeek == InitWeek /\ [][NextWeek]_vars

(***************************************************************************)
(* The run of two getWeekNumber calls, on two dates around a new year      *)
(***************************************************************************)
\* The days from 25 December to 8 January.
NewYearStrings ==
    { FormatISO(y, 12, d) : y \in FirstYear..LastYear, d \in 25..31 }
        \cup { FormatISO(y, 1, d) : y \in FirstYear..LastYear, d \in 1..8 }

InitWeekPair ==
    /\ hostDate = InvalidDate      \* an ISO string never reaches the host's parser
    /\ dateStr \in { Str(s) : s \in NewYearStrings \cup EarlyYearStrings }
    /\ otherStr \in { Str(s) : s \in NewYearStrings \cup EarlyYearStrings }
    /\ date = InvalidDate
    /\ weekKey = Undefined /\ otherKey = Undefined
    /\ rawDataState = Batches(<<>>, <<>>, <<>>, <<>>)
    /\ result = NotCalled
    /\ cumulativeData = <<>>
    /\ Unmounted
    /\ pc = "call"

\* getWeekNumber(otherStr), lines 12-56.
CallGetWeekNumberAgain ==
    /\ pc = "returned"
    /\ otherStr.t = "string"
    /\ otherKey' = getWeekNumber(otherStr, hostDate)
    /\ pc' = "both"
    /\ UNCHANGED <<hostDate, dateStr, date, weekKey, otherStr, metricVars, loadVars>>

NextWeekPair == CallGetWeekNumber \/ CallGetWeekNumberAgain

SpecWeekPair == InitWeekPair /\ [][NextWeekPair]_vars

(***************************************************************************)
(* Inputs of the aggregation runs                                          *)
(***************************************************************************)
Widget == <<"W">>
Gadget == <<"G">>
Ghost  == <<"Z">>     \* a product no catalog lists
Acme   == <<"A", "c", "m", "e">>
Bolt   == <<"B", "o", "l", "t">>

Catalogs ==
    { <<>>,
      << ("Product Name" :> Str(Widget) @@ "Units Per Case" :> Num(Int2Rat(0 - 12))) >>,
      << ("Product Name" :> Str(Widget) @@ "Units Per Case" :> Num(Int2Rat(12))),
         ("Name" :> Str(Gadget) @@ "Units" :> Str(<<"1">>)) >>,
      << ("Product Name" :> Str(Widget) @@ "Units Per Case" :> Num(Zero)),
         ("Product" :> Str(Gadget)) >> }

SalesPool ==
    { ("Product" :> Str(Widget) @@ "Quantity" :> Num(Int2Rat(36)) @@ "Customer" :> Str(Acme)
         @@ "Delivery Date" :> Str(FormatISO(2024, 1, 15))),
      ("Product" :> Str(Widget) @@ "Quantity" :> Num(Int2Rat(30)) @@ "Customer" :> Str(Bolt)
         @@ "Delivery Date" :> Str(FormatISO(2024, 1, 8))),
      ("Product" :> Str(Widget) @@ "Qty" :> Num(Int2Rat(36)) @@ "Store" :> Str(Bolt)
         @@ "DeliveryDate" :> Str(FormatISO(2025, 1, 6))),
      ("Product Name" :> Str(Gadget) @@ "Quantity" :> Num(Rat(5, 2))
         @@ "Date" :> Str(<<"1", "2", "/", "3", "0", "/", "2", "0", "2", "4">>)),
      ("Product" :> Str(Ghost) @@ "Quantity" :> Num(Int2Rat(5)) @@ "Customer" :> Str(Acme)
         @@ "Delivery Date" :> Str(FormatISO(2024, 1, 8))),
      ("Product" :> Str(Widget) @@ "Quantity" :> Num(Zero) @@ "Qty" :> Num(Int2Rat(5))
         @@ "Customer" :> Str(Acme) @@ "Delivery Date" :> Str(FormatISO(2024, 1, 8))) }

PurchasePool ==
    { ("Product Name" :> Str(Widget) @@ "Purchase Quantity" :> Num(Int2Rat(24))
         @@ "Purchase Order Date" :> Str(FormatISO(2024, 3, 4))),
      ("Product" :> Str(Widget) @@ "Quantity" :> Num(Int2Rat(60))
         @@ "PODate" :> Str(FormatISO(2024, 1, 8))),
      ("Product Name" :> Str(Widget) @@ "Purchase Quantity" :> Num(Zero)
         @@ "Purchase Order Date" :> Str(FormatISO(2024, 1, 8))) }

ClockPool ==
    { ("Date In" :> Str(FormatISO(2024, 1, 8)) @@ "Total Less Break" :> Num(Int2Rat(5))),
      ("DateIn" :> Str(FormatISO(2026, 1, 1)) @@ "Hours" :> Str(<<"7", ".", "5">>)),
      ("Date In" :> Str(<<"x">>) @@ "Total Less Break" :> Num(Int2Rat(8))),
      ("Date In" :> Str(FormatISO(2024, 1, 15)) @@ "Total Less Break" :> Num(Int2Rat(0 - 2))) }

\* A sales batch of n stores: every store has an order in the week of
\* 8 January 2024, its quantity following the pattern k, and the second store
\* has another order a week later, at the end of the batch.
StoreName(i) == <<"S">> \o padStart(NatToString(i), 2)

StoreOrder(i, k) ==
    ("Product" :> Str(Widget) @@ "Quantity" :> Num(Int2Rat(12 * (1 + ((i * k) % 5))))
       @@ "Customer" :> Str(StoreName(i)) @@ "Delivery Date" :> Str(FormatISO(2024, 1, 8)))

LateOrder(i) ==
    ("Product" :> Str(Widget) @@ "Qty" :> Num(Int2Rat(6))
       @@ "Store" :> Str(StoreName(i)) @@ "Date" :> Str(FormatISO(2024, 1, 15)))

StoreBatch(n, k) ==
    [i \in 1..n |-> StoreOrder(i, k)] \o (IF n >= 2 THEN <<LateOrder(2)>> ELSE <<>>)

WidgetCatalog == << ("Product Name" :> Str(Widget) @@ "Units Per Case" :> Num(Int2Rat(12))) >>

(***************************************************************************)
(* The run of one aggregation over many stores                             *)
(***************************************************************************)
InitRanking ==
    /\ hostDate = InvalidDate
    /\ dateStr = Undefined /\ date = InvalidDate /\ weekKey = Undefined
    /\ otherStr = Undefined /\ otherKey = Undefined
    /\ \E n \in 0..MaxStores : \E k \in 1..MaxPattern :
           rawDataState = Batches(WidgetCatalog, StoreBatch(n, k), <<>>, <<>>)
    /\ result = NotCalled
    /\ cumulativeData = <<>>
    /\ Unmounted
    /\ pc = "loaded"

(***************************************************************************)
(* The run of one aggregation: calculateMetrics on four batches, then the  *)
(* cumulative chart on the weekly series it returned                       *)
(***************************************************************************)
InitMetrics ==
    /\ hostDate = InvalidDate      \* no date of the pools reaches the host's parser
    /\ dateStr = Undefined /\ date = InvalidDate /\ weekKey = Undefined
    /\ otherStr = Undefined /\ otherKey = Undefined
    /\ \E ns \in 0..MaxRecords : \E np \in 0..(MaxRecords - ns) :
           \E nc \in 0..(MaxRecords - ns - np) :
               \E p \in Catalogs, s \in [1..ns -> SalesPool],
                  po \in [1..np -> PurchasePool], c \in [1..nc -> ClockPool] :
                   rawDataState = Batches(p, s, po, c)
    /\ result = NotCalled
    /\ cumulativeData = <<>>
    /\ Unmounted
    /\ pc = "loaded"

\* calculateMetrics(products, salesOrders, purchaseOrders, clocks), lines 476-590.
CalculateMetrics ==
    /\ pc = "loaded"
    /\ result' = calculateMetrics(rawDataState.products, rawDataState.salesOrders,
                                  rawDataState.purchaseOrders, rawDataState.clocks, hostDate)
    /\ pc' = result'.status
    /\ UNCHANGED <<hostDate, weekVars, rawDataState, cumulativeData, loadVars>>

\* CumulativeVolumeChart({ data: salesAndPOByWeek }), lines 181-192.
RenderCumulativeChart ==
    /\ pc = "returned"
    /\ cumulativeData' = cumulativeDataOf(result.salesAndPOByWeek)
    /\ pc' = "rendered"
    /\ UNCHANGED <<hostDate, weekVars, rawDataState, result, loadVars>>

NextMetrics == CalculateMetrics \/ RenderCumulativeChart

SpecMetrics == InitMetrics /\ [][NextMetrics]_vars

SpecRanking == InitRanking /\ [][NextMetrics]_vars

(***************************************************************************)
(* The run of the mounted Dashboard: loadData and its four loadCSV calls   *)
(* (lines 309-325, 593-626), the Retry button of the error view (line 667) *)
(***************************************************************************)
\* The arrays fetchCSVData resolves with, per source: no row or one row.
CsvData(name) ==
    IF name = "products" THEN Catalogs
    ELSE {<<>>} \cup { <<r>> : r \in (IF name = "salesOrders" THEN SalesPool
                                       ELSE IF name = "purchaseOrders" THEN PurchasePool
                                       ELSE ClockPool) }

\* The messages of the errors fetchCSVData rejects with (lines 77 and 90).
FetchErrors(name) ==
    { <<"Failed to fetch ", DATA_URLS[name], ": ", "404", " ", "Not Found">>,
      <<"Error parsing CSV: ", "Unable to parse">> }

InitLoad ==
    /\ hostDate = InvalidDate
    /\ dateStr = Undefined /\ date = InvalidDate /\ weekKey = Undefined
    /\ otherStr = Undefined /\ otherKey = Undefined
    /\ rawDataState = InitialRawDataState
    /\ result = NotCalled
    /\ cumulativeData = <<>>
    /\ Unmounted
    /\ pc = "mounted"

\* Lines 594-599: the effect calls loadData, which runs up to its first await.
StartLoadData ==
    /\ pc = "mounted"
    /\ loadingState' = setLoadingStarted(loadingState)
    /\ loadCSVCalls' = [loadCSVCalls EXCEPT !["products"].status = "pending"]
    /\ pc' = "awaitProducts"
    /\ UNCHANGED <<hostDate, weekVars, metricVars, processedData, calls>>

\* Lines 311-317: fetchCSVData resolved, loadCSV stores the array and returns it.
ResolveLoadCSV(name) ==
    /\ loadCSVCalls[name].status = "pending"
    /\ \E csvData \in CsvData(name) :
           /\ rawDataState' = setRawData(rawDataState, name, Arr(csvData))
           /\ loadCSVCalls' =
                  [loadCSVCalls EXCEPT ![name] = [status |-> "settled", value |-> Arr(csvData)]]
    /\ loadingState' = setProgress(loadingState, name)
    /\ UNCHANGED <<hostDate, weekVars, result, cumulativeData, processedData, calls, pc>>

\* Lines 318-324: fetchCSVData rejected, loadCSV stores the message and returns null.
RejectLoadCSV(name) ==
    /\ loadCSVCalls[name].status = "pending"
    /\ \E message \in FetchErrors(name) :
           loadingState' = setLoadError(loadingState, name, message)
    /\ loadCSVCalls' = [loadCSVCalls EXCEPT ![name] = [status |-> "settled", value |-> Null]]
    /\ UNCHANGED <<hostDate, weekVars, metricVars, processedData, calls, pc>>

\* Lines 599-607: loadData resumes with products; it returns when the load
\* failed, and else starts the three other loads.
ResumeWithProducts ==
    /\ pc = "awaitProducts"
    /\ loadCSVCalls["products"].status = "settled"
    /\ IF productsLoaded(loadCSVCalls["products"].value)
       THEN /\ loadCSVCalls' = [name \in Sources |->
                                  IF name = "products" THEN loadCSVCalls[name]
                                  ELSE [status |-> "pending", value |-> Null]]
            /\ pc' = "awaitAll"
       ELSE /\ pc' = "stopped"
            /\ UNCHANGED loadCSVCalls
    /\ UNCHANGED <<hostDate, weekVars, metricVars, processedData, loadingState, calls>>

\* Lines 609-622: loadData resumes when the three loads have settled; it
\* returns when one failed, and else calls calculateMetrics and stores the
\* returned object, or the message of the thrown error.
ResumeWithAll ==
    /\ pc = "awaitAll"
    /\ \A name \in Sources : loadCSVCalls[name].status = "settled"
    /\ IF allLoaded(loadCSVCalls["salesOrders"].value, loadCSVCalls["purchaseOrders"].value,
                    loadCSVCalls["clocks"].value)
       THEN /\ result' = calculateMetrics(RowsOf(loadCSVCalls["products"].value),
                                          RowsOf(loadCSVCalls["salesOrders"].value),
                                          RowsOf(loadCSVCalls["purchaseOrders"].value),
                                          RowsOf(loadCSVCalls["clocks"].value), hostDate)
            /\ calls' = calls + 1
            /\ processedData' = (IF result'.status = "returned"
                                 THEN ReturnedObject(result') ELSE processedData)
            /\ loadingState' = (IF result'.status = "returned"
                                THEN setLoadingDone(loadingState)
                                ELSE setProcessingError(loadingState, result'.message))
            /\ pc' = "finished"
       ELSE /\ pc' = "stopped"
            /\ UNCHANGED <<result, calls, processedData, loadingState>>
    /\ UNCHANGED <<hostDate, weekVars, rawDataState, cumulativeData, loadCSVCalls>>

\* Line 667: the Retry button of the error view reloads the page, which ends
\* this run of the component; the next run starts from the initial state.
Retry ==
    /\ pc = "finished"
    /\ View(loadingState) = "error"
    /\ pc' = "reloading"
    /\ UNCHANGED <<hostDate, weekVars, metricVars, loadVars>>

NextLoad ==
    \/ StartLoadData
    \/ \E name \in Sources : ResolveLoadCSV(name)
    \/ \E name \in Sources : RejectLoadCSV(name)
    \/ ResumeWithProducts
    \/ ResumeWithAll
    \/ Retry

SpecLoad == InitLoad /\ [][NextLoad]_vars

(***************************************************************************)
(* Reference calendar facts the claims are stated against                  *)
(***************************************************************************)
\* ISO 8601: a week belongs to the year of its Thursday.
IsoWeekYearOf(n) == CivilFromDays(startOfISOWeek(n) + 3)[1]

\* ISO 8601 week number: weeks counted from the week of the year's first Thursday.
IsoWeekOf(n) ==
    LET thu == startOfISOWeek(n) + 3
    IN  (thu - DaysFromCivil(CivilFromDays(thu)[1], 1, 1)) \div 7 + 1

\* The year part of a week key: the text before "-W", as an integer.
KeyParts(k) ==
    LET w == CHOOSE i \in 1..Len(k) : k[i] = "W"
    IN  <<SubSeq(k, 1, w - 2), SubSeq(k, w + 1, Len(k))>>

ParseIntStr(s) ==
    IF Len(s) >= 1 /\ s[1] = "-" THEN 0 - DigitsToInt(SubSeq(s, 2, Len(s))) ELSE DigitsToInt(s)

KeyYear(k) == ParseIntStr(KeyParts(k)[1])
KeyWeek(k) == ParseIntStr(KeyParts(k)[2])

\* The set of elements of a sequence.
Range(xs) == { xs[i] : i \in 1..Len(xs) }

\* (year, week) of key a strictly before that of key b, as integers.
KeyBefore(a, b) ==
    \/ KeyYear(a) < KeyYear(b)
    \/ KeyYear(a) = KeyYear(b) /\ KeyWeek(a) < KeyWeek(b)

\* C1: for every valid date, the year part of the week key returned by
\* getWeekNumber is the ISO week-numbering year of that date.
C1_YearIsIsoWeekYear ==
    (pc = "returned" /\ dateStr.t = "string" /\ isValid(parseISO(dateStr.v)))
        => /\ weekKey.t = "string"
           /\ KeyYear(weekKey.v) = IsoWeekYearOf(parseISO(dateStr.v).day)

\* C2: two dates get the same week key exactly when they lie in the same ISO
\* week, and the key of a date in an earlier ISO week sorts strictly before
\* the key of a date in a later one under the comparator of calculateMetrics.
C2_WeekKeysChronological ==
    (pc = "both" /\ weekKey.t = "string" /\ otherKey.t = "string") =>
        LET m1 == startOfISOWeek(parseISO(dateStr.v).day)
            m2 == startOfISOWeek(parseISO(otherStr.v).day)
        IN  /\ (weekKey.v = otherKey.v) <=> (m1 = m2)
            /\ (m1 < m2) => RatLess(compareWeeks(weekKey.v, otherKey.v), Zero)

\* C3: the cumulative series is a running sum: each cumulative value is the
\* previous week's cumulative value plus this week's value (0 before the
\* first week), for received and for shipped.
C3_CumulativeRunningSum ==
    (pc = "rendered") =>
        \A i \in 1..Len(cumulativeData) :
            /\ cumulativeData[i].cumulativeReceived
                 = RatAdd(IF i = 1 THEN Zero ELSE cumulativeData[i - 1].cumulativeReceived,
                          cumulativeData[i].received)
            /\ cumulativeData[i].cumulativeShipped
                 = RatAdd(IF i = 1 THEN Zero ELSE cumulativeData[i - 1].cumulativeShipped,
                          cumulativeData[i].shipped)

\* C4: the cumulative series never decreases from one week to the next, for
\* shipped and for received.
C4_CumulativeMonotone ==
    (pc = "rendered") =>
        \A i \in 2..Len(cumulativeData) :
            /\ RatLeq(cumulativeData[i - 1].cumulativeShipped, cumulativeData[i].cumulativeShipped)
            /\ RatLeq(cumulativeData[i - 1].cumulativeReceived, cumulativeData[i].cumulativeReceived)

\* A real calendar date with a four-digit year: month 1..12, day within the month.
RealDate(yStr, mStr, dStr) ==
    /\ Len(yStr) = 4 /\ AllDigits(yStr)
    /\ mStr # <<>> /\ AllDigits(mStr) /\ dStr # <<>> /\ AllDigits(dStr)
    /\ DigitsToInt(mStr) \in 1..12
    /\ DigitsToInt(dStr) \in 1..DaysInMonth(DigitsToInt(yStr), DigitsToInt(mStr))

\* The interpretations of the components <<a, b, c>> as <<year, month, day>>:
\* (month, day, year), (day, month, year), (year, month, day).
Interpretations(parts) ==
    << <<parts[3], parts[1], parts[2]>>,
       <<parts[3], parts[2], parts[1]>>,
       <<parts[1], parts[2], parts[3]>> >>

IsReal(ymd) == RealDate(ymd[1], ymd[2], ymd[3])

FirstRealInterpretation(parts) ==
    LET is == Interpretations(parts)
        k  == CHOOSE k \in 1..3 : IsReal(is[k]) /\ \A j \in 1..(k - 1) : ~IsReal(is[j])
    IN  DaysFromCivil(DigitsToInt(is[k][1]), DigitsToInt(is[k][2]), DigitsToInt(is[k][3]))

\* C5: a non-ISO string of three components resolves to the first of the
\* interpretations (month, day, year), (day, month, year), (year, month, day)
\* that is a real calendar date; no interpretation is accepted by rolling an
\* out-of-range month or day over.
C5_FirstRealInterpretation ==
    (/\ pc = "returned" /\ dateStr.t = "string" /\ ~isValid(parseISO(dateStr.v))
     /\ Len(SplitOn(dateStr.v, {"-", "/"})) = 3
     /\ \E k \in 1..3 : IsReal(Interpretations(SplitOn(dateStr.v, {"-", "/"}))[k]))
        => /\ isValid(date)
           /\ date.day = FirstRealInterpretation(SplitOn(dateStr.v, {"-", "/"}))

RecordedCases(byStore, store, week) ==
    IF Has(byStore, store) /\ Has(Lookup(byStore, store), week)
    THEN Lookup(Lookup(byStore, store), week) ELSE Zero

NoProducts == result.productMap = <<>>
NoWeeks ==
    result.salesByWeek = <<>> /\ result.poByWeek = <<>> /\ result.laborHoursByWeek = <<>>

\* C7: calculateMetrics ends in a fatal failure exactly when the catalog
\* yields no valid entry or the three sources yield no week key; the empty
\* catalog is found before any source is aggregated, the failure names its
\* cause, and in every other case a result dataset is produced.
C7_FatalIffNoProductsOrNoWeeks ==
    (result.status # "none") =>
        /\ (result.status = "thrown") <=> (NoProducts \/ NoWeeks)
        /\ NoProducts =>
               (result.message = "No valid products found" /\ result.reached = "products")
        /\ (~NoProducts /\ NoWeeks) => result.message = "No valid data weeks found"
        /\ ~(NoProducts \/ NoWeeks) =>
               (result.status = "returned" /\ Len(result.salesAndPOByWeek) >= 1)

C7_Witness ==
    /\ result.status = "thrown"
    /\ result.productMap # <<>>
    /\ Len(rawDataState.salesOrders) + Len(rawDataState.purchaseOrders)
         + Len(rawDataState.clocks) >= 2

\* C8 as stated: a fatal condition is delivered as a returned failure value,
\* and no exception escapes calculateMetrics.
C8_NoExceptionEscapes == result.status # "thrown"

\* C8 (amended): a fatal condition leaves calculateMetrics as a thrown Error
\* whose message names the cause, and calculateMetrics never returns a
\* failure value: whatever it returns is a dataset with at least one week.
C8_FatalIsThrownError ==
    /\ (result.status = "thrown") =>
           /\ result.message \in {"No valid products found", "No valid data weeks found"}
           /\ result.weeks = <<>> /\ result.salesAndPOByWeek = <<>>
    /\ (result.status = "returned") =>
           /\ result.message = ""
           /\ Len(result.weeks) >= 1
           /\ Len(result.salesAndPOByWeek) = Len(result.weeks)

C8_Witness == result.status = "thrown" /\ result.message = "No valid data weeks found"

\* A week key that only the labor totals have.
LaborOnly(w) ==
    Has(result.laborHoursByWeek, w) /\ ~Has(result.salesByWeek, w) /\ ~Has(result.poByWeek, w)

C10_WeeksStrictlyAscending ==
    (result.status = "returned") =>
        /\ \A i \in 1..Len(result.weeks) : \A j \in 1..Len(result.weeks) :
               (i < j) => KeyBefore(result.weeks[i], result.weeks[j])
        /\ Len(result.salesAndPOByWeek) = Len(result.weeks)
        /\ Len(result.casesPerLaborHour) = Len(result.weeks)
        /\ \A i \in 1..Len(result.weeks) :
               /\ result.salesAndPOByWeek[i].week = result.weeks[i]
               /\ result.casesPerLaborHour[i].week = result.weeks[i]

\* Three weeks of two years, the sales weeks first met out of order.
C10_Witness ==
    /\ result.status = "returned"
    /\ Len(result.weeks) >= 3
    /\ KeyYear(result.weeks[1]) # KeyYear(result.weeks[Len(result.weeks)])
    /\ Len(result.salesByWeek) >= 2
    /\ KeyBefore(result.salesByWeek[2][1], result.salesByWeek[1][1])

\* (receivedCases + shippedCases) / laborHours when there are labor hours, else 0.
EfficiencyOf(receivedCases, shippedCases, laborHours) ==
    IF RatLess(Zero, laborHours)
    THEN RatDiv(RatAdd(receivedCases, shippedCases), laborHours) ELSE Zero

\* C11: for every week of the output, totalCasesPerLaborHour is
\* (receivedCases + shippedCases) / laborHours when laborHours > 0 and 0 when
\* laborHours = 0: a week without labor hours has efficiency 0, never NaN.
C11_EfficiencyGuarded ==
    (result.status = "returned") =>
        \A i \in 1..Len(result.casesPerLaborHour) :
            /\ result.casesPerLaborHour[i].totalCasesPerLaborHour
                 = EfficiencyOf(result.casesPerLaborHour[i].receivedCases,
                                result.casesPerLaborHour[i].shippedCases,
                                result.casesPerLaborHour[i].laborHours)
            /\ ~IsNaN(result.casesPerLaborHour[i].totalCasesPerLaborHour)
            /\ result.salesAndPOByWeek[i].totalCasesPerLaborHour
                 = EfficiencyOf(result.salesAndPOByWeek[i].received,
                                result.salesAndPOByWeek[i].shipped,
                                result.salesAndPOByWeek[i].laborHours)

\* A week with received cases and no labor hours next to a week with both.
C11_Witness ==
    /\ result.status = "returned"
    /\ \E i \in 1..Len(result.casesPerLaborHour) :
           /\ result.casesPerLaborHour[i].laborHours = Zero
           /\ RatLess(Zero, result.casesPerLaborHour[i].receivedCases)
    /\ \E i \in 1..Len(result.casesPerLaborHour) :
           /\ RatLess(Zero, result.casesPerLaborHour[i].laborHours)
           /\ RatLess(Zero, result.casesPerLaborHour[i].totalCasesPerLaborHour)

\* The cases of a store summed over a list of weeks.
RECURSIVE CasesOver(_, _, _)
CasesOver(byStore, store, weeks) ==
    IF weeks = <<>> THEN Zero
    ELSE RatAdd(CasesOver(byStore, store, SubSeq(weeks, 1, Len(weeks) - 1)),
                RecordedCases(byStore, store, weeks[Len(weeks)]))

\* The total of a store: its cases summed over the weeks of the output.
TotalOf(store) == CasesOver(result.salesByStoreAndWeek, store, result.weeks)

NameChars ==
    << "-", "0", "1", "2", "3", "4", "5", "6", "7", "8", "9",
       "A", "B", "S", "U", "W", "c", "e", "k", "l", "m", "n", "o", "t", "w" >>

CharRank(c) == CHOOSE i \in 1..Len(NameChars) : NameChars[i] = c

\* a < b in ascending string order.
RECURSIVE StrLess(_, _)
StrLess(a, b) ==
    IF b = <<>> THEN FALSE
    ELSE IF a = <<>> THEN TRUE
    ELSE IF a[1] # b[1] THEN CharRank(a[1]) < CharRank(b[1])
    ELSE StrLess(SubSeq(a, 2, Len(a)), SubSeq(b, 2, Len(b)))

\* C13: of two stores with equal totals, the one whose name is smaller in
\* ascending string order is ranked first, in allStores and in the top-10
\* ranking, whatever the order in which the sales batch first names them.
C13_TiesBrokenByName ==
    (result.status = "returned") =>
        /\ \A i \in 1..Len(result.allStores) : \A j \in 1..Len(result.allStores) :
               (i < j /\ TotalOf(result.allStores[i]) = TotalOf(result.allStores[j]))
                   => StrLess(result.allStores[i], result.allStores[j])
        /\ \A i \in 1..Len(result.topStoresByWeek) : \A j \in 1..Len(result.topStoresByWeek) :
               (i < j /\ result.topStoresByWeek[i].total = result.topStoresByWeek[j].total)
                   => StrLess(result.topStoresByWeek[i].store, result.topStoresByWeek[j].store)

\* The product of a sales record is in the product map of the call.
KnownProduct(order) ==
    Truthy(SalesProductOf(order)) /\ Has(result.productMap, ToKey(SalesProductOf(order)))

\* The sales totals of the call are those of the given batch.
SalesTotalsAre(sales) ==
    /\ result.salesByWeek = sales.salesByWeek
    /\ result.salesByStoreAndWeek = sales.salesByStoreAndWeek

NumberOf(x) == IF x.t = "number" THEN x.v ELSE parseFloat(x)

\* The cases a record of the given product, quantity and date contributes to
\* a week: quantity / unitsPerCase, unrounded, when the product is in the
\* product map, the quantity is a number > 0 and the date falls in the week.
ExactCases(product, quantity, dateCell, week) ==
    IF /\ Truthy(product) /\ Has(result.productMap, ToKey(product))
       /\ ~IsNaN(NumberOf(quantity)) /\ RatLess(Zero, NumberOf(quantity))
       /\ Truthy(dateCell) /\ getWeekNumber(dateCell, hostDate) = Str(week)
    THEN RatDiv(NumberOf(quantity), Lookup(result.productMap, ToKey(product)))
    ELSE Zero

RECURSIVE ExactShipped(_, _)
ExactShipped(orders, week) ==
    IF orders = <<>> THEN Zero
    ELSE RatAdd(ExactShipped(SubSeq(orders, 1, Len(orders) - 1), week),
                ExactCases(SalesProductOf(orders[Len(orders)]), SalesQuantityOf(orders[Len(orders)]),
                           SalesDateOf(orders[Len(orders)]), week))

RECURSIVE ExactReceived(_, _)
ExactReceived(pos, week) ==
    IF pos = <<>> THEN Zero
    ELSE RatAdd(ExactReceived(SubSeq(pos, 1, Len(pos) - 1), week),
                ExactCases(PurchaseProductOf(pos[Len(pos)]), PurchaseQuantityOf(pos[Len(pos)]),
                           PurchaseDateOf(pos[Len(pos)]), week))

\* C15: every accepted sales or purchase record contributes exactly
\* quantity / unitsPerCase cases to its week, for any numeric quantity > 0,
\* without rounding or truncation of the quantity or of the quotient: each
\* week's shipped and received totals are the sums of these contributions.
C15_ExactCaseConversion ==
    (result.status = "returned") =>
        \A i \in 1..Len(result.weeks) :
            /\ GetOr0(result.salesByWeek, result.weeks[i])
                 = ExactShipped(rawDataState.salesOrders, result.weeks[i])
            /\ GetOr0(result.poByWeek, result.weeks[i])
                 = ExactReceived(rawDataState.purchaseOrders, result.weeks[i])

\* A value that is missing, unparseable, zero or negative as a quantity or
\* as a number of hours.
NotPositive(x) == IsNaN(NumberOf(x)) \/ RatLeq(NumberOf(x), Zero)

\* A date cell that is missing or fails to normalize.
NoWeekKey(dateCell) == ~Truthy(dateCell) \/ getWeekNumber(dateCell, hostDate) = Null

ValidSale(order) ==
    /\ KnownProduct(order)
    /\ ~NotPositive(SalesQuantityOf(order))
    /\ ~NoWeekKey(SalesDateOf(order))

ValidPurchase(po) ==
    /\ Truthy(PurchaseProductOf(po)) /\ Has(result.productMap, ToKey(PurchaseProductOf(po)))
    /\ ~NotPositive(PurchaseQuantityOf(po))
    /\ ~NoWeekKey(PurchaseDateOf(po))

ValidClock(clock) == ~NotPositive(ClockHoursOf(clock)) /\ ~NoWeekKey(ClockDateOf(clock))

Present(x) == x.t = "number" \/ (x.t = "string" /\ x.v # <<>>)

FirstPresent(a, b) == IF Present(a) THEN a ELSE b

\* The units-per-case cell of a catalog record: the first alias that holds a
\* value, undefined when none does.
UnitsCellOf(product) ==
    FirstPresent(FirstPresent(Field(product, "Units Per Case"), Field(product, "UnitsPerCase")),
                 Field(product, "Units"))

\* The cell parses to a positive integer.
PositiveInteger(x) == Present(x) /\ ~IsNaN(parseInt(x)) /\ RatLess(Zero, parseInt(x))

\* C17: a catalog record is in the product index only if its resolved name
\* is non-empty and its resolved units-per-case parses to a positive integer;
\* the name of a record whose units-per-case is missing, zero, negative or
\* unparseable is not entered, in particular not with a substitute value.
C17_OnlyPositiveUnitsIndexed ==
    (result.status # "none") =>
        \A k \in 1..Len(result.productMap) :
            \E i \in 1..Len(rawDataState.products) :
                /\ Truthy(ProductNameOf(rawDataState.products[i]))
                /\ ToKey(ProductNameOf(rawDataState.products[i])) = result.productMap[k][1]
                /\ PositiveInteger(UnitsCellOf(rawDataState.products[i]))
                /\ parseInt(UnitsCellOf(rawDataState.products[i])) = result.productMap[k][2]

DayOf(ymd) == DaysFromCivil(DigitsToInt(ymd[1]), DigitsToInt(ymd[2]), DigitsToInt(ymd[3]))

\* "03-04-2024" and the week key of 4 March 2024.
ThirdOfApril == <<"0", "3", "-", "0", "4", "-", "2", "0", "2", "4">>
WeekTen == <<"2", "0", "2", "4", "-", "W", "1", "0">>

\* C19: a non-ISO string of three components that is a real date both as
\* (month, day, year) and as (day, month, year) is read as month/day/year:
\* "03-04-2024" is 4 March 2024, week key "2024-W10".
C19_MonthDayYearFirst ==
    (/\ pc = "returned" /\ dateStr.t = "string" /\ ~isValid(parseISO(dateStr.v))
     /\ Len(SplitOn(dateStr.v, {"-", "/"})) = 3
     /\ IsReal(Interpretations(SplitOn(dateStr.v, {"-", "/"}))[1])
     /\ IsReal(Interpretations(SplitOn(dateStr.v, {"-", "/"}))[2]))
        => /\ isValid(date)
           /\ date.day = DayOf(Interpretations(SplitOn(dateStr.v, {"-", "/"}))[1])
           /\ weekKey = WeekKeyOfDate(date)
           /\ (dateStr.v = ThirdOfApril) =>
                  (date.day = DaysFromCivil(2024, 3, 4) /\ weekKey = Str(WeekTen))

C19_Witness ==
    /\ pc = "returned"
    /\ dateStr = Str(ThirdOfApril)
    /\ weekKey = Str(WeekTen)
    /\ isValid(hostDate)

\* The form YYYY-Www: four digits, "-W", two digits spelling a week in 01..53.
WellFormedKey(k) ==
    /\ Len(k) = 8
    /\ AllDigits(SubSeq(k, 1, 4))
    /\ k[5] = "-" /\ k[6] = "W"
    /\ AllDigits(SubSeq(k, 7, 8))
    /\ DigitsToInt(SubSeq(k, 7, 8)) \in 1..53

\* C20: getWeekNumber returns either a string of the exact form YYYY-Www,
\* with a four-digit year and a two-digit week in 01..53, or null, and never
\* any other string.
C20_KeyWellFormedOrNull ==
    (pc = "returned") =>
        \/ weekKey = Null
        \/ weekKey.t = "string" /\ WellFormedKey(weekKey.v)

\* C21: for every pair of week keys produced by getWeekNumber, the order of
\* the keys as plain strings is the order of their (year, week) integer
\* pairs under the sort comparator of calculateMetrics.
C21_StringOrderIsComparatorOrder ==
    (pc = "both" /\ weekKey.t = "string" /\ otherKey.t = "string") =>
        /\ StrLess(weekKey.v, otherKey.v)
             <=> RatLess(compareWeeks(weekKey.v, otherKey.v), Zero)
        /\ (weekKey.v = otherKey.v) <=> (compareWeeks(weekKey.v, otherKey.v) = Zero)

\* The quantity cell of a sales or purchase record resolved over its
\* aliases: the first alias that holds a value, else the default 0.
ResolvedSalesQuantity(order) ==
    FirstPresent(FirstPresent(Field(order, "Quantity"), Field(order, "Qty")), Num(Zero))

ResolvedPurchaseQuantity(po) ==
    FirstPresent(FirstPresent(FirstPresent(Field(po, "Purchase Quantity"), Field(po, "Quantity")),
                              Field(po, "Qty")), Num(Zero))

\* C23: field resolution gives the value of the first alias, in order, that
\* the record holds with a non-empty value, and the default only when no
\* alias holds one; the number 0 counts as a value: Quantity = 0 with Qty = 5
\* resolves to 0, and 'Units Per Case' = 0 resolves to 0, not to the default.
C23_FirstPresentAliasWins ==
    (result.status # "none") =>
        /\ \A i \in 1..Len(rawDataState.salesOrders) :
               SalesQuantityOf(rawDataState.salesOrders[i])
                   = ResolvedSalesQuantity(rawDataState.salesOrders[i])
        /\ \A i \in 1..Len(rawDataState.purchaseOrders) :
               PurchaseQuantityOf(rawDataState.purchaseOrders[i])
                   = ResolvedPurchaseQuantity(rawDataState.purchaseOrders[i])
        /\ \A i \in 1..Len(rawDataState.products) :
               UnitsPerCaseOf(rawDataState.products[i])
                   = FirstPresent(UnitsCellOf(rawDataState.products[i]), Str(<<"1">>))

\* The store a sales record names: the first of Customer, Store and Client
\* that holds a value, 'Unknown' when none does.
StoreOf(order) ==
    LET cell == FirstPresent(FirstPresent(Field(order, "Customer"), Field(order, "Store")),
                             Field(order, "Client"))
    IN  IF Present(cell) THEN ToKey(cell) ELSE <<"U", "n", "k", "n", "o", "w", "n">>

\* The cases the call counted for a sales record: those of an accepted record
\* (product in the product map, positive quantity, date with a week key).
CountedCases(order) ==
    IF ValidSale(order)
    THEN RatDiv(parseInt(SalesQuantityOf(order)),
                Lookup(result.productMap, ToKey(SalesProductOf(order))))
    ELSE Zero

\* The counted cases of the records of a batch that name the store and fall
\* in the week.
RECURSIVE SoldTo(_, _, _)
SoldTo(orders, store, week) ==
    IF orders = <<>> THEN Zero
    ELSE RatAdd(SoldTo(SubSeq(orders, 1, Len(orders) - 1), store, week),
                IF /\ ValidSale(orders[Len(orders)])
                   /\ StoreOf(orders[Len(orders)]) = store
                   /\ getWeekNumber(SalesDateOf(orders[Len(orders)]), hostDate) = Str(week)
                THEN CountedCases(orders[Len(orders)]) ELSE Zero)

\* The cases of all stores in a week.
AllStoresIn(week) ==
    SumSeq([i \in 1..Len(result.allStores) |->
               RecordedCases(result.salesByStoreAndWeek, result.allStores[i], week)])

FailedLoads ==
    { name \in Sources : loadCSVCalls[name].status = "settled" /\ loadCSVCalls[name].value = Null }

\* loadData has run to its end or returned early.
AtRest == pc \in {"stopped", "finished", "reloading"}

\* C24: when one of the four loads has failed, the dashboard leaves the
\* loading view and shows the error view with the message that names a
\* failed source: this is the state of every run in which a load failed and
\* loadData has come to rest.
C24_LoadFailureShowsError ==
    (AtRest /\ FailedLoads # {}) =>
        /\ View(loadingState) = "error"
        /\ \E name \in FailedLoads : \E message \in FetchErrors(name) :
               loadingState.error = Str(<<"Error loading ", name, " data: ">> \o message)

\* Every load has succeeded.
AllSucceeded ==
    \A name \in Sources :
        loadCSVCalls[name].status = "settled" /\ loadCSVCalls[name].value # Null

\* C26: in every interleaving of the completions of the parallel loads no
\* completion overwrites another's update: once all loads have succeeded,
\* rawDataState holds the four arrays the loads returned and the four
\* dataProgress flags are true; in every state a true flag has a non-null
\* rawDataState entry; and a flag that is true stays true.
C26_NoLostUpdates ==
    /\ [](AllSucceeded =>
             \A name \in Sources :
                 /\ rawDataState[name] = loadCSVCalls[name].value
                 /\ loadingState.dataProgress[name])
    /\ [](\A name \in Sources :
             loadingState.dataProgress[name] => (rawDataState[name] # Null))
    /\ [][\A name \in Sources :
             loadingState.dataProgress[name] => loadingState'.dataProgress[name]]_vars

\* The three parallel loads have all succeeded, with different arrays, and
\* loadData has not resumed yet.
C26_Witness ==
    /\ pc = "awaitAll"
    /\ AllSucceeded
    /\ \A name \in Sources : loadingState.dataProgress[name] /\ rawDataState[name].v # <<>>

\* C27: the sales, purchase and labor loads are started only after the
\* products load has succeeded; calculateMetrics is invoked at most once, and
\* only after all four loads have succeeded; processedData is set only to an
\* object calculateMetrics returned; and loading is false only after
\* calculateMetrics has returned or thrown.
C27_LoadOrdering ==
    /\ \A name \in Sources \ {"products"} :
           (loadCSVCalls[name].status # "idle") =>
               /\ loadCSVCalls["products"].status = "settled"
               /\ loadCSVCalls["products"].value # Null
    /\ calls <= 1
    /\ (calls = 1) <=> (result.status \in {"returned", "thrown"})
    /\ (calls = 1) => AllSucceeded
    /\ (processedData # InitialProcessedData) =>
           (result.status = "returned" /\ processedData = ReturnedObject(result))
    /\ (~loadingState.loading) => (result.status \in {"returned", "thrown"})

\* A run in which calculateMetrics returned and the charts are shown.
C27_Witness ==
    /\ pc = "finished"
    /\ calls = 1
    /\ result.status = "returned"
    /\ processedData = ReturnedObject(result)
    /\ View(loadingState) = "charts"

\* C28: when calculateMetrics throws after the four loads succeeded, loading
\* is false, error is 'Error processing data: ' followed by the message of
\* the thrown error, processedData still has its initial empty value, and
\* the error view is shown instead of the charts.
C28_ThrowShowsProcessingError ==
    (result.status = "thrown") =>
        /\ AllSucceeded
        /\ ~loadingState.loading
        /\ result.message \in {"No valid products found", "No valid data weeks found"}
        /\ loadingState.error = Str(<<"Error processing data: ", result.message>>)
        /\ processedData = InitialProcessedData
        /\ View(loadingState) = "error"

\* calculateMetrics threw for want of weeks, on a catalog with a valid product.
C28_Witness ==
    /\ pc = "finished"
    /\ AllSucceeded
    /\ result.status = "thrown"
    /\ result.message = "No valid data weeks found"
    /\ loadCSVCalls["products"].value.v # <<>>

====
